---------------------------- MODULE Spec2Model ----------------------------
(***************************************************************************)
(* Day-suitability scoring and ranking engine of TzApp-backend.            *)
(*                                                                         *)
(* Numbers.  The program computes on Python floats; the model computes on  *)
(* exact decimals held as integers:                                        *)
(*   - a measurement (temperature in K or deg C, wind in m/s, humidity and *)
(*     cloud cover in %) is held in hundredths of its unit, so 273.15 K is *)
(*     27315; precipitation is held in thousandths of a mm, so 0.5 mm is   *)
(*     500 and the categorizer's 0.001, 0.005 and 0.03 are 1, 5 and 30;    *)
(*   - inside calculate_event_score the running score is held in           *)
(*     thousandths of a point, so 30 points is 30000 and the humidity      *)
(*     penalty 0.3 * 0.01 is 3;                                            *)
(*   - a returned score (after round(score, 2)) is held in hundredths of a *)
(*     point, so 100.00 is 10000.                                          *)
(* Binary representation error of floats is not modelled; round() is the   *)
(* round-half-to-even of Python 3 on the exact decimal value.              *)
(***************************************************************************)
EXTENDS Integers, Sequences, FiniteSets, TLC

VARIABLES
    row,        \* scoring harness: the observation handed to calculate_event_score
    event,      \* scoring harness: the event whose criteria are used
    impl,       \* scoring harness: which module's calculate_event_score ran
    score,      \* scoring harness: the value returned (NoScore before the call)
    moved,      \* scoring harness: the factor the last step moved outward
    moves,      \* scoring harness: how many outward moves were made
    csv,        \* the rows of weather_data.csv, in file order
    csv_readable, \* FALSE once the file can no longer be read
    weather_service, \* app.py: TRUE when WeatherPlannerService() was constructed
    ml_model,   \* WeatherPlannerService.ml_model: "none", "loaded", or "failing"
                \* (loaded, its predict call raising)
    call,       \* the operation just run, its arguments and what it returned
    weather_data, \* classification harness: the measurements to classify
    city_registry,  \* the module-level dict CITY_COORDINATES, as the threads see it
    event_registry, \* the module-level dict EVENT_CRITERIA, as the threads see it
    queries,    \* concurrent queries: per thread, where find_best_days stands
                \* and its local variables
    conversation_history, \* chatbot_api: session_id -> list of messages
    saved_chats, \* chatbot_api: chat_id -> saved chat
    uuids,      \* chatbot_api: how many uuid4() values were drawn
    chats       \* chatbot_api: per worker thread, where the /api/chat handler stands

scoreVars == <<row, event, impl, score, moved, moves>>

planVars == <<csv, csv_readable, weather_service, ml_model, call>>

classVars == <<weather_data>>

concVars == <<city_registry, event_registry, queries>>

chatVars == <<conversation_history, saved_chats, uuids, chats>>

\* The variables neither the scoring harness nor the planner touches.
otherVars == <<weather_data, city_registry, event_registry, queries,
               conversation_history, saved_chats, uuids, chats>>

vars == <<row, event, impl, score, moved, moves,
          csv, csv_readable, weather_service, ml_model, call,
          weather_data, city_registry, event_registry, queries,
          conversation_history, saved_chats, uuids, chats>>

-----------------------------------------------------------------------------
(* Registries                                                              *)

\* CITY_COORDINATES.keys() in insertion order (the order the error message lists).
CITY_NAMES ==
    << "Alba", "Arad", "Bacau", "Baia Mare", "Bistrita", "Brasov", "Bucuresti",
       "Buzau", "Cluj", "Constanta", "Craiova", "Deva", "Drobeta-Turnu Severin",
       "Galati", "Iasi", "Oradea", "Petrosani", "Pitesti", "Ramnicu Valcea",
       "Satu Mare", "Sibiu", "Slobozia", "Suceava", "Timisoara" >>

\* (lat, lon) in 1e-5 degrees.
CITY_COORDINATES ==
    [ c \in {CITY_NAMES[i] : i \in 1..Len(CITY_NAMES)} |->
        CASE c = "Alba"      -> <<4606667, 2358333>>
          [] c = "Arad"      -> <<4616667, 2131667>>
          [] c = "Bacau"     -> <<4656667, 2691667>>
          [] c = "Baia Mare" -> <<4765969, 2356808>>
          [] c = "Bistrita"  -> <<4713316, 2450069>>
          [] c = "Brasov"    -> <<4564861, 2560613>>
          [] c = "Bucuresti" -> <<4443225, 2610626>>
          [] c = "Buzau"     -> <<4514802, 2682148>>
          [] c = "Cluj"      -> <<4676667, 2360000>>
          [] c = "Constanta" -> <<4418073, 2863432>>
          [] c = "Craiova"   -> <<4431667, 2380000>>
          [] c = "Deva"      -> <<4588333, 2290000>>
          [] c = "Drobeta-Turnu Severin" -> <<4463188, 2265648>>
          [] c = "Galati"    -> <<4545000, 2803333>>
          [] c = "Iasi"      -> <<4716667, 2760000>>
          [] c = "Oradea"    -> <<4706667, 2193333>>
          [] c = "Petrosani" -> <<4541667, 2336667>>
          [] c = "Pitesti"   -> <<4485000, 2486667>>
          [] c = "Ramnicu Valcea" -> <<4510000, 2436667>>
          [] c = "Satu Mare" -> <<4780000, 2288333>>
          [] c = "Sibiu"     -> <<4580000, 2415000>>
          [] c = "Slobozia"  -> <<4456667, 2736667>>
          [] c = "Suceava"   -> <<4763333, 2625000>>
          [] c = "Timisoara" -> <<4575372, 2122571>> ]

\* EVENT_CRITERIA.keys() in insertion order.
EVENT_NAMES ==
    << "picnic", "festival", "pool_party", "concert", "drumetie", "nunta",
       "zi_nastere" >>

Criteria(lo, hi, p, w, h, c) ==
    [ temp_min |-> lo, temp_max |-> hi, max_precip |-> p, max_wind |-> w,
      max_humidity |-> h, max_clouds |-> c ]

\* Thresholds in hundredths of deg C, thousandths of a mm, hundredths of m/s, %, %.
EVENT_CRITERIA ==
    [ e \in {EVENT_NAMES[i] : i \in 1..Len(EVENT_NAMES)} |->
        CASE e = "picnic"     -> Criteria(1800, 2600,  500, 400, 7000, 6000)
          [] e = "festival"   -> Criteria(1500, 2800, 1000, 600, 7500, 8000)
          [] e = "pool_party" -> Criteria(2200, 3200,    0, 300, 6500, 4000)
          [] e = "concert"    -> Criteria(1200, 2500,  200, 500, 8000, 7000)
          [] e = "drumetie"   -> Criteria( 800, 2200,  100, 700, 8000, 7000)
          [] e = "nunta"      -> Criteria(1600, 2600,    0, 300, 6500, 3000)
          [] e = "zi_nastere" -> Criteria(1500, 2700,  300, 400, 7500, 6000) ]

-----------------------------------------------------------------------------
(* Python built-ins                                                        *)

Abs(x) == IF x < 0 THEN -x ELSE x
Min(a, b) == IF a <= b THEN a ELSE b
Max(a, b) == IF a >= b THEN a ELSE b

\* round() to the nearest multiple of m, ties to the even multiple; the result
\* is counted in multiples of m.
RoundHalfEven(x, m) ==
    LET q == x \div m
        r == x % m
    IN  IF 2 * r < m THEN q
        ELSE IF 2 * r > m THEN q + 1
        ELSE IF q % 2 = 0 THEN q ELSE q + 1


-----------------------------------------------------------------------------
(* weather_service.py: the scoring function                                *)

\* Mutant: the offset cut to 273.
kelvin_to_celsius_273(temp_k) == temp_k - 27300

kelvin_to_celsius(temp_k) == temp_k - 27315

\* Mutant: the penalty branch without its floor at 0.
temp_points_unfloored(r, criteria) ==
    LET temp_c == kelvin_to_celsius(r.afternoon_temp)
        temp_penalty == Min(Abs(temp_c - criteria.temp_min),
                            Abs(temp_c - criteria.temp_max))
    IN  IF criteria.temp_min <= temp_c /\ temp_c <= criteria.temp_max
        THEN 30000
        ELSE 30000 - temp_penalty * 20

\* if temp_min <= temp_c <= temp_max: 30  else: max(0, 30 - temp_penalty * 2)
temp_points(r, criteria) ==
    LET temp_c == kelvin_to_celsius(r.afternoon_temp)
        temp_penalty == Min(Abs(temp_c - criteria.temp_min),
                            Abs(temp_c - criteria.temp_max))
    IN  IF criteria.temp_min <= temp_c /\ temp_c <= criteria.temp_max
        THEN 30000
        ELSE Max(0, 30000 - temp_penalty * 20)

\* if precip <= max_precip: 25  else: max(0, 25 - (precip - max_precip) * 10)
precip_points(r, criteria) ==
    IF r.precip <= criteria.max_precip
    THEN 25000
    ELSE Max(0, 25000 - (r.precip - criteria.max_precip) * 10)

\* Mutant: the excess taken with the wrong sign.
wind_points_sign(r, criteria) ==
    IF r.wind_max_speed <= criteria.max_wind
    THEN 20000
    ELSE Max(0, 20000 - (criteria.max_wind - r.wind_max_speed) * 30)

\* if wind <= max_wind: 20  else: max(0, 20 - (wind - max_wind) * 3)
wind_points(r, criteria) ==
    IF r.wind_max_speed <= criteria.max_wind
    THEN 20000
    ELSE Max(0, 20000 - (r.wind_max_speed - criteria.max_wind) * 30)

\* if humidity <= max_humidity: 15  else: max(0, 15 - (humidity - max_humidity) * 0.3)
humidity_points(r, criteria) ==
    IF r.humidity_afternoon <= criteria.max_humidity
    THEN 15000
    ELSE Max(0, 15000 - (r.humidity_afternoon - criteria.max_humidity) * 3)

\* Mutant: the humidity rate (0.3) used for cloud cover.
clouds_points_rate(r, criteria) ==
    IF r.cloud_cover_afternoon <= criteria.max_clouds
    THEN 10000
    ELSE Max(0, 10000 - (r.cloud_cover_afternoon - criteria.max_clouds) * 3)

\* if clouds <= max_clouds: 10  else: max(0, 10 - (clouds - max_clouds) * 0.2)
clouds_points(r, criteria) ==
    IF r.cloud_cover_afternoon <= criteria.max_clouds
    THEN 10000
    ELSE Max(0, 10000 - (r.cloud_cover_afternoon - criteria.max_clouds) * 2)

\* score = 0; score += ... (five times); return round(score, 2)
calculate_event_score(r, criteria) ==
    LET s0 == 0
        s1 == s0 + temp_points(r, criteria)
        s2 == s1 + precip_points(r, criteria)
        s3 == s2 + wind_points(r, criteria)
        s4 == s3 + humidity_points(r, criteria)
        s5 == s4 + clouds_points(r, criteria)
    IN  RoundHalfEven(s5, 10)

-----------------------------------------------------------------------------
(* smart_planner.py: the duplicated scoring function                       *)

\* Mutant: the offset cut to 273 in this module's copy.
sp_kelvin_to_celsius_273(temp_k) == temp_k - 27300

sp_kelvin_to_celsius(temp_k) == temp_k - 27315

sp_calculate_event_score(r, criteria) ==
    LET temp_c == sp_kelvin_to_celsius(r.afternoon_temp)
        temp_penalty == Min(Abs(temp_c - criteria.temp_min),
                            Abs(temp_c - criteria.temp_max))
        s0 == 0
        s1 == s0 + (IF criteria.temp_min <= temp_c /\ temp_c <= criteria.temp_max
                    THEN 30000
                    ELSE Max(0, 30000 - temp_penalty * 20))
        s2 == s1 + (IF r.precip <= criteria.max_precip
                    THEN 25000
                    ELSE Max(0, 25000 - (r.precip - criteria.max_precip) * 10))
        s3 == s2 + (IF r.wind_max_speed <= criteria.max_wind
                    THEN 20000
                    ELSE Max(0, 20000 - (r.wind_max_speed - criteria.max_wind) * 30))
        s4 == s3 + (IF r.humidity_afternoon <= criteria.max_humidity
                    THEN 15000
                    ELSE Max(0, 15000 - (r.humidity_afternoon - criteria.max_humidity) * 3))
        s5 == s4 + (IF r.cloud_cover_afternoon <= criteria.max_clouds
                    THEN 10000
                    ELSE Max(0, 10000 - (r.cloud_cover_afternoon - criteria.max_clouds) * 2))
    IN  RoundHalfEven(s5, 10)

-----------------------------------------------------------------------------
(* Scoring harness: one observation, one profile, the function applied     *)

\* How many times an observation is moved further outside a band.
MaxMoves == 1

Factors == {"temperature", "precip", "wind", "humidity", "clouds"}

\* Outward steps: the smallest one (0.01 of a unit, 0.001 mm) and one that takes every
\* factor past the point where its penalty exceeds its maximum.
OutwardSteps == {1, 5000}

\* Temperatures (in K) around a profile's band: just below it, on both of its
\* edges, and above it.
TempValues(criteria) ==
    { c + 27315 : c \in { criteria.temp_min - 3, criteria.temp_min,
                          criteria.temp_max, criteria.temp_max + 150 } }

\* Values around an upper threshold: below it, on it, and `over` above it.
UpperValues(threshold, under, over) ==
    { Max(0, threshold - under), threshold, threshold + over }

\* weather_script.WeatherData: temperature in hundredths of deg C, precipitation
\* in thousandths, wind in hundredths of m/s, relative humidity in hundredths of
\* a %, altitude in hundredths of a m, air pressure in hundredths of a hPa.
WeatherData(t, p, w, h, alt, ap) ==
    [ temperature |-> t, precipitation |-> p, wind |-> w,
      relative_humidity |-> h, altitude |-> alt, air_pressure |-> ap ]

NoWeatherData == WeatherData(0, 0, 0, 0, 0, 0)

ClassifyAtRest == weather_data = NoWeatherData

\* The worker threads that may run the /api/chat handler at the same time.
ChatThreads == {"c1", "c2"}

\* A worker thread outside the /api/chat handler.
IdleChat == [ pc |-> "idle", session_id |-> "", message |-> "", reply |-> "" ]

\* chatbot_api as imported: both dicts empty, no request in flight.
ChatAtRest ==
    /\ conversation_history = << >>
    /\ saved_chats = << >>
    /\ uuids = 0
    /\ chats = [ c \in ChatThreads |-> IdleChat ]

\* The threads that may run find_best_days at the same time.
Threads == {"q1", "q2"}

\* A thread outside find_best_days.
IdleQuery ==
    [ pc |-> "idle", args |-> << >>, frame |-> << >>, ret |-> [type |-> "none"] ]

\* The registries as the modules define them; no query in flight.
QueriesAtRest ==
    /\ city_registry = CITY_COORDINATES
    /\ event_registry = EVENT_CRITERIA
    /\ queries = [ t \in Threads |-> IdleQuery ]

Observation(t, p, w, h, c) ==
    [ afternoon_temp |-> t, precip |-> p, wind_max_speed |-> w,
      humidity_afternoon |-> h, cloud_cover_afternoon |-> c ]

ScoreWith(i, r, criteria) ==
    IF i = "smart_planner" THEN sp_calculate_event_score(r, criteria)
                           ELSE calculate_event_score(r, criteria)

InitScore ==
    /\ event \in DOMAIN EVENT_CRITERIA
    /\ \E t \in TempValues(EVENT_CRITERIA[event]),
          p \in UpperValues(EVENT_CRITERIA[event].max_precip, 100, 70),
          w \in UpperValues(EVENT_CRITERIA[event].max_wind, 100, 33),
          h \in UpperValues(EVENT_CRITERIA[event].max_humidity, 500, 5),
          c \in UpperValues(EVENT_CRITERIA[event].max_clouds, 1000, 3) :
            row = Observation(t, p, w, h, c)
    /\ impl = "none"
    /\ score = 0
    /\ moved = "none"
    /\ moves = 0
    /\ csv = << >>
    /\ csv_readable = TRUE
    /\ weather_service = TRUE
    /\ ml_model = "none"
    /\ call = [op |-> "idle"]
    /\ ClassifyAtRest
    /\ QueriesAtRest
    /\ ChatAtRest

\* A caller applies one module's calculate_event_score to the observation.
Score(i) ==
    /\ impl = "none"
    /\ impl' = i
    /\ score' = ScoreWith(i, row, EVENT_CRITERIA[event])
    /\ UNCHANGED <<row, event, moved, moves>>
    /\ UNCHANGED planVars
    /\ UNCHANGED otherVars

\* The observation with factor f moved d further outside its band; the
\* observation itself when f is inside its band.
Outward(r, criteria, f, d) ==
    LET temp_c == kelvin_to_celsius(r.afternoon_temp)
    IN  CASE f = "temperature" ->
               IF temp_c <= criteria.temp_min
               THEN [r EXCEPT !.afternoon_temp = @ - d]
               ELSE IF temp_c >= criteria.temp_max
               THEN [r EXCEPT !.afternoon_temp = @ + d]
               ELSE r
          [] f = "precip" ->
               IF r.precip >= criteria.max_precip
               THEN [r EXCEPT !.precip = @ + d] ELSE r
          [] f = "wind" ->
               IF r.wind_max_speed >= criteria.max_wind
               THEN [r EXCEPT !.wind_max_speed = @ + d] ELSE r
          [] f = "humidity" ->
               IF r.humidity_afternoon >= criteria.max_humidity
               THEN [r EXCEPT !.humidity_afternoon = @ + d] ELSE r
          [] f = "clouds" ->
               IF r.cloud_cover_afternoon >= criteria.max_clouds
               THEN [r EXCEPT !.cloud_cover_afternoon = @ + d] ELSE r

\* The same caller scores the observation again after one factor moved outward.
Worsen(f, d) ==
    /\ impl # "none"
    /\ moves < MaxMoves
    /\ Outward(row, EVENT_CRITERIA[event], f, d) # row
    /\ row' = Outward(row, EVENT_CRITERIA[event], f, d)
    /\ score' = ScoreWith(impl, row', EVENT_CRITERIA[event])
    /\ moved' = f
    /\ moves' = moves + 1
    /\ UNCHANGED <<event, impl>>
    /\ UNCHANGED planVars
    /\ UNCHANGED otherVars

NextScore ==
    \/ \E i \in {"weather_service", "smart_planner"} : Score(i)
    \/ \E f \in Factors, d \in OutwardSteps : Worsen(f, d)

SpecScore == InitScore /\ [][NextScore]_vars

-----------------------------------------------------------------------------
(* weather_service.py: the weather category of a ranked day                *)

\* Mutant: the rain rules tried before the snow rule.
fallback_categorization_rain_first(r) ==
    LET temp_celsius == kelvin_to_celsius(r.afternoon_temp)
        precipitation == r.precip
    IN  IF precipitation >= 30 THEN "heavy_rain"
        ELSE IF precipitation >= 5 THEN "light_rain"
        ELSE IF temp_celsius <= 0 /\ precipitation > 1 THEN "snow"
        ELSE IF temp_celsius >= 2000 THEN "hot"
        ELSE IF temp_celsius < 1000 THEN "cold"
        ELSE "sunny"

\* The rule chain, first match wins.  Temperature in hundredths of deg C;
\* precipitation in thousandths, so that 0.001, 0.005 and 0.03 are 1, 5 and 30.
fallback_categorization(r) ==
    LET temp_celsius == kelvin_to_celsius(r.afternoon_temp)
        precipitation == r.precip
    IN  IF temp_celsius <= 0 /\ precipitation > 1 THEN "snow"
        ELSE IF precipitation >= 30 THEN "heavy_rain"
        ELSE IF precipitation >= 5 THEN "light_rain"
        ELSE IF temp_celsius >= 2000 THEN "hot"
        ELSE IF temp_celsius < 1000 THEN "cold"
        ELSE "sunny"

\* WeatherModel.predict_weather_optimized: the input checks raise ValueError
\* (the message names the quantity; the model keeps it as the parameter's
\* name); past them the label is whatever the pickled classifier answers for
\* the features, an opaque value kept as the features it was asked about.
\* model is "loaded", or "failing" when self.model.predict raises.
predict_weather_optimized(model, temperature, precipitation, wind, relative_humidity, altitude, air_pressure) ==
    IF relative_humidity < 0 \/ relative_humidity > 10000
    THEN [raised |-> "ValueError", field |-> "relative_humidity"]
    ELSE IF precipitation < 0
    THEN [raised |-> "ValueError", field |-> "precipitation"]
    ELSE IF wind < 0
    THEN [raised |-> "ValueError", field |-> "wind"]
    ELSE IF air_pressure < 0
    THEN [raised |-> "ValueError", field |-> "air_pressure"]
    ELSE IF model = "failing"
    THEN [raised |-> "Exception", field |-> "model.predict"]
    ELSE [raised |-> "no",
          prediction |-> <<"model.predict", temperature, precipitation, wind,
                           relative_humidity, altitude, air_pressure>>]

\* Mutant: a failed classifier call labelled "unknown" instead of falling back.
categorize_weather_ml_unknown(ml, r) ==
    IF ml # "none"
    THEN LET p == predict_weather_optimized(ml,
                      kelvin_to_celsius(r.afternoon_temp),
                      r.precip, r.wind_max_speed, r.humidity_afternoon,
                      10000, 101325)
         IN  IF p.raised = "no"
             THEN [by |-> "ml_model", label |-> "", features |-> p.prediction]
             ELSE [by |-> "fallback", label |-> "unknown", features |-> << >>]
    ELSE [by |-> "fallback", label |-> fallback_categorization(r),
          features |-> << >>]

\* A category is a record: the rule chain's label, or the classifier's answer.
\* altitude = 100.0 and air_pressure = 1013.25 are the defaults the method passes.
categorize_weather_ml(ml, r) ==
    IF ml # "none"
    THEN LET p == predict_weather_optimized(ml,
                      kelvin_to_celsius(r.afternoon_temp),
                      r.precip, r.wind_max_speed, r.humidity_afternoon,
                      10000, 101325)
         IN  IF p.raised = "no"
             THEN [by |-> "ml_model", label |-> "", features |-> p.prediction]
             ELSE [by |-> "fallback", label |-> fallback_categorization(r),
                   features |-> << >>]
    ELSE [by |-> "fallback", label |-> fallback_categorization(r),
          features |-> << >>]

\* app.py, POST /categorize-weather: the handler's own rule chain on the
\* posted temperature and precipitation; the response it returns.
categorize_weather(wd) ==
    LET temp == wd.temperature
        precip == wd.precipitation
        prediction ==
            IF temp <= 0 /\ precip > 1 THEN "snow"
            ELSE IF precip >= 30 THEN "heavy_rain"
            ELSE IF precip >= 5 /\ precip < 30 THEN "light_rain"
            ELSE IF temp >= 2000 THEN "hot"
            ELSE IF temp < 1000 /\ precip < 5 THEN "cold"
            ELSE IF temp >= 1000 /\ temp < 2000 /\ precip < 5 THEN "sunny"
            ELSE "sunny"
    IN  [ status_code |-> 200, success |-> TRUE, weather_category |-> prediction,
          input_data |-> wd ]

-----------------------------------------------------------------------------
(* pandas: the calls find_best_days makes                                  *)

\* pd.read_csv: the file's rows under the default RangeIndex 0, 1, 2, ...
read_csv(file) == [ i \in 1..Len(file) |-> file[i] @@ [index |-> i - 1] ]

\* Sorted by score descending, rows of equal score in their given order
\* (argsort(kind="mergesort") on the negated scores).
RECURSIVE StableDescending(_)
StableDescending(s) ==
    IF s = << >> THEN << >>
    ELSE LET rest == StableDescending(SubSeq(s, 1, Len(s) - 1))
             x == s[Len(s)]
             k == Cardinality({ i \in 1..Len(rest) : rest[i].score >= x.score })
         IN  SubSeq(rest, 1, k) \o << x >> \o SubSeq(rest, k + 1, Len(rest))

\* Every arrangement of s sorted by score descending: what
\* sort_values(ascending=False) with its default kind="quicksort", which is not
\* stable, may return.
DescendingOrders(s) ==
    { [ i \in 1..Len(s) |-> s[q[i]] ] :
        q \in { p \in Permutations(1..Len(s)) :
                  \A i \in 1..(Len(s) - 1) : s[p[i]].score >= s[p[i + 1]].score } }

\* Mutant: keep='last', the rows tying at the cut-off taken from the end.
nlargest_keep_last(n, s) ==
    IF n <= 0 THEN { << >> }
    ELSE IF n >= Len(s) THEN DescendingOrders(s)
    ELSE LET kth_val == StableDescending(s)[n].score
             above == SelectSeq(s, LAMBDA r : r.score > kth_val)
             ties == SelectSeq(s, LAMBDA r : r.score = kth_val)
             need == n - Len(above)
         IN  { StableDescending(above) \o
               SubSeq(ties, Len(ties) - need + 1, Len(ties)) }

\* DataFrame.nlargest(n, 'score'), keep='first': the set of frames it may
\* return.  n <= 0: no rows.  n >= len: the slow path, sort_values.head(n).
\* Otherwise the fast path: the rows at or above the n-th largest score,
\* merge-sorted, the first n of them.
nlargest(n, s) ==
    IF n <= 0 THEN { << >> }
    ELSE IF n >= Len(s) THEN DescendingOrders(s)
    ELSE LET kth_val == StableDescending(s)[n].score
             ns == SelectSeq(s, LAMBDA r : r.score >= kth_val)
         IN  { SubSeq(StableDescending(ns), 1, n) }

-----------------------------------------------------------------------------
(* weather_service.py: WeatherPlannerService.find_best_days                *)

ValueError(template, name, listed) ==
    [ type |-> "ValueError",
      message |-> [ template |-> template, name |-> name, listed |-> listed ] ]

DataFrame(rows) == [ type |-> "DataFrame", rows |-> rows ]

\* What pd.read_csv raises when the file cannot be read.
FileNotFoundError == [ type |-> "FileNotFoundError" ]

\* Mutant: one row kept per date (drop_duplicates on 'date') before scoring.
month_data_scored_dedup(file, city, ev, month, year) ==
    LET df == read_csv(file)
        city_lat == CITY_COORDINATES[city][1]
        city_lon == CITY_COORDINATES[city][2]
        city_data == SelectSeq(df, LAMBDA r : r.lat = city_lat /\ r.lon = city_lon)
        in_month == SelectSeq(city_data,
                          LAMBDA r : r.date.month = month /\ r.date.year = year)
        month_data == SelectSeq(in_month,
                          LAMBDA r : \A k \in 1..Len(in_month) :
                              in_month[k].date = r.date => in_month[k].index >= r.index)
        criteria == EVENT_CRITERIA[ev]
    IN  [ i \in 1..Len(month_data) |->
            month_data[i] @@ [score |-> calculate_event_score(month_data[i], criteria)] ]

\* The rows of the month, scored (lines 183-200).
month_data_scored(file, city, ev, month, year) ==
    LET df == read_csv(file)
        city_lat == CITY_COORDINATES[city][1]
        city_lon == CITY_COORDINATES[city][2]
        city_data == SelectSeq(df, LAMBDA r : r.lat = city_lat /\ r.lon = city_lon)
        month_data == SelectSeq(city_data,
                          LAMBDA r : r.date.month = month /\ r.date.year = year)
        criteria == EVENT_CRITERIA[ev]
    IN  [ i \in 1..Len(month_data) |->
            month_data[i] @@ [score |-> calculate_event_score(month_data[i], criteria)] ]

\* Mutant: temp_celsius left in Kelvin.
best_day_kelvin(ml, r) ==
    [ index |-> r.index, date |-> r.date, score |-> r.score,
      afternoon_temp |-> r.afternoon_temp, precip |-> r.precip,
      wind_max_speed |-> r.wind_max_speed,
      humidity_afternoon |-> r.humidity_afternoon,
      cloud_cover_afternoon |-> r.cloud_cover_afternoon,
      temp_celsius |-> r.afternoon_temp,
      weather_category |-> categorize_weather_ml(ml, r) ]

\* The columns kept, plus temp_celsius and weather_category (lines 202-210).
best_day(ml, r) ==
    [ index |-> r.index, date |-> r.date, score |-> r.score,
      afternoon_temp |-> r.afternoon_temp, precip |-> r.precip,
      wind_max_speed |-> r.wind_max_speed,
      humidity_afternoon |-> r.humidity_afternoon,
      cloud_cover_afternoon |-> r.cloud_cover_afternoon,
      temp_celsius |-> kelvin_to_celsius(r.afternoon_temp),
      weather_category |-> categorize_weather_ml(ml, r) ]

\* Mutant: the dataset read before the city and the event are checked.
find_best_days_reads_first(file, readable, ml, city, ev, month, year, limit) ==
    IF ~readable
    THEN { FileNotFoundError }
    ELSE IF city \notin DOMAIN CITY_COORDINATES
    THEN { ValueError("City '{city}' not available. Available cities: {available_cities}",
                      city, CITY_NAMES) }
    ELSE IF ev \notin DOMAIN EVENT_CRITERIA
    THEN { ValueError("Event '{event}' not available. Available events: {available_events}",
                      ev, EVENT_NAMES) }
    ELSE LET month_data == month_data_scored(file, city, ev, month, year)
         IN  IF month_data = << >>
             THEN { DataFrame(<< >>) }
             ELSE { DataFrame([ i \in 1..Len(best) |-> best_day(ml, best[i]) ]) :
                      best \in nlargest(limit, month_data) }

\* Mutant: a month without rows reported as an error.
find_best_days_no_data_error(file, readable, ml, city, ev, month, year, limit) ==
    IF city \notin DOMAIN CITY_COORDINATES
    THEN { ValueError("City '{city}' not available. Available cities: {available_cities}",
                      city, CITY_NAMES) }
    ELSE IF ev \notin DOMAIN EVENT_CRITERIA
    THEN { ValueError("Event '{event}' not available. Available events: {available_events}",
                      ev, EVENT_NAMES) }
    ELSE IF ~readable
    THEN { FileNotFoundError }
    ELSE LET month_data == month_data_scored(file, city, ev, month, year)
         IN  IF month_data = << >>
             THEN { ValueError("No data for {month}/{year}", city, << >>) }
             ELSE { DataFrame([ i \in 1..Len(best) |-> best_day(ml, best[i]) ]) :
                      best \in nlargest(limit, month_data) }

\* What find_best_days may return or raise.
find_best_days(file, readable, ml, city, ev, month, year, limit) ==
    IF city \notin DOMAIN CITY_COORDINATES
    THEN { ValueError("City '{city}' not available. Available cities: {available_cities}",
                      city, CITY_NAMES) }
    ELSE IF ev \notin DOMAIN EVENT_CRITERIA
    THEN { ValueError("Event '{event}' not available. Available events: {available_events}",
                      ev, EVENT_NAMES) }
    ELSE IF ~readable
    THEN { FileNotFoundError }
    ELSE LET month_data == month_data_scored(file, city, ev, month, year)
         IN  IF month_data = << >>
             THEN { DataFrame(<< >>) }
             ELSE { DataFrame([ i \in 1..Len(best) |-> best_day(ml, best[i]) ]) :
                      best \in nlargest(limit, month_data) }

-----------------------------------------------------------------------------
(* smart_planner.py: its own registries and find_best_days                 *)

SP_CITY_COORDINATES ==
    [ c \in { "Alba", "Arad", "Bacau", "Baia Mare", "Bistrita", "Brasov",
              "Bucuresti", "Buzau", "Cluj", "Constanta", "Craiova", "Deva",
              "Drobeta-Turnu Severin", "Galati", "Iasi", "Oradea", "Petrosani",
              "Pitesti", "Ramnicu Valcea", "Satu Mare", "Sibiu", "Slobozia",
              "Suceava", "Timisoara" } |->
        CASE c = "Alba"      -> <<4606667, 2358333>>
          [] c = "Arad"      -> <<4616667, 2131667>>
          [] c = "Bacau"     -> <<4656667, 2691667>>
          [] c = "Baia Mare" -> <<4765969, 2356808>>
          [] c = "Bistrita"  -> <<4713316, 2450069>>
          [] c = "Brasov"    -> <<4564861, 2560613>>
          [] c = "Bucuresti" -> <<4443225, 2610626>>
          [] c = "Buzau"     -> <<4514802, 2682148>>
          [] c = "Cluj"      -> <<4676667, 2360000>>
          [] c = "Constanta" -> <<4418073, 2863432>>
          [] c = "Craiova"   -> <<4431667, 2380000>>
          [] c = "Deva"      -> <<4588333, 2290000>>
          [] c = "Drobeta-Turnu Severin" -> <<4463188, 2265648>>
          [] c = "Galati"    -> <<4545000, 2803333>>
          [] c = "Iasi"      -> <<4716667, 2760000>>
          [] c = "Oradea"    -> <<4706667, 2193333>>
          [] c = "Petrosani" -> <<4541667, 2336667>>
          [] c = "Pitesti"   -> <<4485000, 2486667>>
          [] c = "Ramnicu Valcea" -> <<4510000, 2436667>>
          [] c = "Satu Mare" -> <<4780000, 2288333>>
          [] c = "Sibiu"     -> <<4580000, 2415000>>
          [] c = "Slobozia"  -> <<4456667, 2736667>>
          [] c = "Suceava"   -> <<4763333, 2625000>>
          [] c = "Timisoara" -> <<4575372, 2122571>> ]

SP_EVENT_CRITERIA ==
    [ e \in { "picnic", "festival", "pool_party", "concert", "drumetie", "nunta",
              "zi_nastere" } |->
        CASE e = "picnic"     -> Criteria(1800, 2600,  500, 400, 7000, 6000)
          [] e = "festival"   -> Criteria(1500, 2800, 1000, 600, 7500, 8000)
          [] e = "pool_party" -> Criteria(2200, 3200,    0, 300, 6500, 4000)
          [] e = "concert"    -> Criteria(1200, 2500,  200, 500, 8000, 7000)
          [] e = "drumetie"   -> Criteria( 800, 2200,  100, 700, 8000, 7000)
          [] e = "nunta"      -> Criteria(1600, 2600,    0, 300, 6500, 3000)
          [] e = "zi_nastere" -> Criteria(1500, 2700,  300, 400, 7500, 6000) ]

sp_best_day(r) ==
    [ index |-> r.index, date |-> r.date, score |-> r.score,
      afternoon_temp |-> r.afternoon_temp, precip |-> r.precip,
      wind_max_speed |-> r.wind_max_speed,
      humidity_afternoon |-> r.humidity_afternoon,
      cloud_cover_afternoon |-> r.cloud_cover_afternoon,
      temp_celsius |-> sp_kelvin_to_celsius(r.afternoon_temp) ]

\* What smart_planner.find_best_days(csv_file, city, event, month, year) may
\* return or raise; it always asks nlargest for 5 rows.
sp_find_best_days(file, readable, city, ev, month, year) ==
    IF city \notin DOMAIN SP_CITY_COORDINATES
    THEN { ValueError("Orasul {city} nu este in lista disponibila", city, << >>) }
    ELSE IF ev \notin DOMAIN SP_EVENT_CRITERIA
    THEN { ValueError("Evenimentul {event} nu este in lista disponibila", ev, << >>) }
    ELSE IF ~readable
    THEN { FileNotFoundError }
    ELSE LET df == read_csv(file)
             city_lat == SP_CITY_COORDINATES[city][1]
             city_lon == SP_CITY_COORDINATES[city][2]
             city_data == SelectSeq(df, LAMBDA r : r.lat = city_lat /\ r.lon = city_lon)
             month_data == SelectSeq(city_data,
                               LAMBDA r : r.date.month = month /\ r.date.year = year)
             criteria == SP_EVENT_CRITERIA[ev]
             scored == [ i \in 1..Len(month_data) |->
                           month_data[i] @@
                           [score |-> sp_calculate_event_score(month_data[i], criteria)] ]
         IN  IF month_data = << >>
             THEN { DataFrame(<< >>) }
             ELSE { DataFrame([ i \in 1..Len(best) |-> sp_best_day(best[i]) ]) :
                      best \in nlargest(5, scored) }

-----------------------------------------------------------------------------
(* models.py and app.py: the /plan-event endpoint                          *)

\* v.strip().title() on the city names the model sends.
validate_city(v) ==
    CASE v = "craiova" -> "Craiova"
      [] v = " Cluj "  -> "Cluj"
      [] OTHER         -> v

\* v.strip().lower() on the event names the model sends.
validate_event(v) ==
    CASE v = "Picnic"  -> "picnic"
      [] v = " NUNTA " -> "nunta"
      [] OTHER         -> v

\* WeatherPlanningRequest: field constraints, then the two validators.
WeatherPlanningRequest(raw) ==
    IF /\ 1 <= raw.month /\ raw.month <= 12
       /\ 2020 <= raw.year /\ raw.year <= 2026
       /\ 1 <= raw.limit /\ raw.limit <= 5
    THEN [ valid |-> TRUE, city |-> validate_city(raw.city),
           event |-> validate_event(raw.event), month |-> raw.month,
           year |-> raw.year, limit |-> raw.limit ]
    ELSE [ valid |-> FALSE ]

\* WeatherDay(...): the values rounded as the handler rounds them (line 105-113);
\* WeatherDay declares no weather_category, so that argument is dropped.
WeatherDay(r) ==
    [ date |-> r.date,
      score |-> RoundHalfEven(r.score, 1),
      temp_celsius |-> RoundHalfEven(r.temp_celsius, 10) * 10,
      precip |-> RoundHalfEven(r.precip, 10) * 10,
      wind_max_speed |-> RoundHalfEven(r.wind_max_speed, 1),
      humidity_afternoon |-> RoundHalfEven(r.humidity_afternoon, 10) * 10,
      cloud_cover_afternoon |-> RoundHalfEven(r.cloud_cover_afternoon, 10) * 10 ]

HTTPException(status_code, detail) ==
    [ status_code |-> status_code, detail |-> detail ]

WeatherPlanningResponse(request, best_days, message) ==
    [ status_code |-> 200, success |-> TRUE, city |-> request.city,
      event |-> request.event, month |-> request.month, year |-> request.year,
      best_days |-> best_days, message |-> message ]

\* Mutant: no "except ValueError" clause, every exception answered 500.
plan_event_no_400(service, file, readable, ml, request) ==
    IF ~service
    THEN { HTTPException(500, "Weather service not available - data file not found") }
    ELSE { IF best_days_df.type # "DataFrame"
           THEN HTTPException(500, "Eroare interna: {str(e)}")
           ELSE IF best_days_df.rows = << >>
           THEN WeatherPlanningResponse(request, << >>,
                    "Nu s-au gasit date pentru aceasta perioada")
           ELSE WeatherPlanningResponse(request,
                    [ i \in 1..Len(best_days_df.rows) |-> WeatherDay(best_days_df.rows[i]) ],
                    "Gasite {len(best_days)} zile potrivite pentru {event} in {city}") :
           best_days_df \in find_best_days(file, readable, ml, request.city, request.event,
                                           request.month, request.year, request.limit) }

\* The responses plan_event may give to a validated request.
plan_event(service, file, readable, ml, request) ==
    IF ~service
    THEN { HTTPException(500, "Weather service not available - data file not found") }
    ELSE { IF best_days_df.type = "ValueError"
           THEN HTTPException(400, best_days_df.message)
           ELSE IF best_days_df.type # "DataFrame"
           THEN HTTPException(500, "Eroare interna: {str(e)}")
           ELSE IF best_days_df.rows = << >>
           THEN WeatherPlanningResponse(request, << >>,
                    "Nu s-au gasit date pentru aceasta perioada")
           ELSE WeatherPlanningResponse(request,
                    [ i \in 1..Len(best_days_df.rows) |-> WeatherDay(best_days_df.rows[i]) ],
                    "Gasite {len(best_days)} zile potrivite pentru {event} in {city}") :
           best_days_df \in find_best_days(file, readable, ml, request.city, request.event,
                                           request.month, request.year, request.limit) }

-----------------------------------------------------------------------------
(* The program and its environment                                         *)

\* Rows the dataset file may hold at most.
MaxRows == 3

\* The largest limit a direct caller of find_best_days passes.
MaxLimit == 4

DatasetRow(city, y, m, d, t, p, w, h, c) ==
    [ lat |-> CITY_COORDINATES[city][1], lon |-> CITY_COORDINATES[city][2],
      date |-> [year |-> y, month |-> m, day |-> d],
      afternoon_temp |-> t, precip |-> p, wind_max_speed |-> w,
      humidity_afternoon |-> h, cloud_cover_afternoon |-> c ]

\* Rows that may be appended to the dataset: two Craiova days of May 2026 that
\* tie at 100 for a picnic (and differ for a wedding), a second, colder row for
\* one of those dates, a row whose precipitation is negative, and rows of
\* another month, another year, another city.
DatasetRows ==
    { DatasetRow("Craiova", 2026, 5, 1, 29515, 0, 200, 6000, 2000),
      DatasetRow("Craiova", 2026, 5, 2, 29315, 400, 350, 6800, 5000),
      DatasetRow("Craiova", 2026, 5, 2, 28315, 0, 612, 9005, 7003),
      DatasetRow("Craiova", 2026, 5, 3, 29415, -500, 250, 6500, 3000),
      DatasetRow("Craiova", 2026, 6, 1, 29815, 0, 100, 5000, 1000),
      DatasetRow("Craiova", 2025, 5, 1, 29515, 0, 200, 6000, 2000),
      DatasetRow("Cluj", 2026, 5, 1, 27315, 200, 300, 7000, 6000) }

CityArgs == {"Craiova", "Cluj", "Atlantis"}
EventArgs == {"picnic", "nunta", "karaoke"}
MonthArgs == {5, 6}
YearArgs == {2026}

\* What clients post to /plan-event: names before normalisation, limits on
\* both sides of the accepted range.
RawRequests ==
    [ city : {"craiova", " Cluj ", "Atlantis"},
      event : {"Picnic", " NUNTA ", "karaoke"},
      month : MonthArgs, year : YearArgs, limit : {0, 1, 5, 6} ]

Idle == [ op |-> "idle" ]

Init ==
    /\ csv = << >>
    /\ csv_readable = TRUE
    /\ weather_service \in BOOLEAN
    /\ ml_model \in (IF weather_service THEN {"none", "loaded", "failing"}
                                        ELSE {"none"})
    /\ call = Idle
    /\ row = Observation(0, 0, 0, 0, 0)
    /\ event = "picnic"
    /\ impl = "none"
    /\ score = 0
    /\ moved = "none"
    /\ moves = 0
    /\ ClassifyAtRest
    /\ QueriesAtRest
    /\ ChatAtRest

\* The dataset is external and append-only: a row is added to the file.  No
\* line is repeated verbatim, so any two rows differ in more than their position.
AppendRow(r) ==
    /\ call = Idle
    /\ csv_readable
    /\ Len(csv) < MaxRows
    /\ \A i \in 1..Len(csv) : csv[i] # r
    /\ csv' = Append(csv, r)
    /\ UNCHANGED <<csv_readable, weather_service, ml_model, call>>
    /\ UNCHANGED scoreVars
    /\ UNCHANGED otherVars

\* The file is removed or loses its read permission; it holds no rows then.
DatasetUnreadable ==
    /\ call = Idle
    /\ csv_readable
    /\ csv_readable' = FALSE
    /\ csv' = << >>
    /\ UNCHANGED <<weather_service, ml_model, call>>
    /\ UNCHANGED scoreVars
    /\ UNCHANGED otherVars

\* A caller runs WeatherPlannerService.find_best_days.
FindBestDays(city, ev, month, year, limit) ==
    /\ call = Idle
    /\ weather_service
    /\ \E ret \in find_best_days(csv, csv_readable, ml_model, city, ev, month, year, limit) :
         call' = [ op |-> "find_best_days",
                   args |-> [city |-> city, event |-> ev, month |-> month,
                             year |-> year, limit |-> limit],
                   ret |-> ret ]
    /\ UNCHANGED <<csv, csv_readable, weather_service, ml_model>>
    /\ UNCHANGED scoreVars
    /\ UNCHANGED otherVars

\* A caller runs smart_planner.find_best_days on the same file.
SmartPlannerFindBestDays(city, ev, month, year) ==
    /\ call = Idle
    /\ \E ret \in sp_find_best_days(csv, csv_readable, city, ev, month, year) :
         call' = [ op |-> "smart_planner.find_best_days",
                   args |-> [city |-> city, event |-> ev, month |-> month,
                             year |-> year],
                   ret |-> ret ]
    /\ UNCHANGED <<csv, csv_readable, weather_service, ml_model>>
    /\ UNCHANGED scoreVars
    /\ UNCHANGED otherVars

\* POST /plan-event: validation (422 when it fails), then the handler.
PlanEvent(raw) ==
    /\ call = Idle
    /\ LET request == WeatherPlanningRequest(raw)
       IN  IF ~request.valid
           THEN call' = [ op |-> "plan_event", args |-> raw,
                          ret |-> HTTPException(422, "validation error") ]
           ELSE \E ret \in plan_event(weather_service, csv, csv_readable, ml_model, request) :
                  call' = [ op |-> "plan_event", args |-> raw, ret |-> ret ]
    /\ UNCHANGED <<csv, csv_readable, weather_service, ml_model>>
    /\ UNCHANGED scoreVars
    /\ UNCHANGED otherVars

\* The caller has its answer; the next operation can start.
Return ==
    /\ call # Idle
    /\ call' = Idle
    /\ UNCHANGED <<csv, csv_readable, weather_service, ml_model>>
    /\ UNCHANGED scoreVars
    /\ UNCHANGED otherVars

Next ==
    \/ \E r \in DatasetRows : AppendRow(r)
    \/ DatasetUnreadable
    \/ \E c \in CityArgs, e \in EventArgs, m \in MonthArgs, y \in YearArgs,
          l \in 0..MaxLimit : FindBestDays(c, e, m, y, l)
    \/ \E c \in CityArgs, e \in EventArgs, m \in MonthArgs, y \in YearArgs :
          SmartPlannerFindBestDays(c, e, m, y)
    \/ \E raw \in RawRequests : PlanEvent(raw)
    \/ Return

Spec == Init /\ [][Next]_vars

-----------------------------------------------------------------------------
(* Classification harness: one set of measurements, each classifier applied *)

\* Measurements on both sides of every threshold the classifiers test, and on
\* both sides of every bound predict_weather_optimized checks.
WeatherInputs ==
    { WeatherData(t, p, w, h, 10000, ap) :
        t \in {-500, 0, 1, 999, 1000, 1999, 2000},
        p \in {-1, 0, 1, 2, 4, 5, 29, 30},
        w \in {-1, 0},
        h \in {-1, 0, 10000, 10001},
        ap \in {-1, 101325} }

\* The dataset row with these measurements (temperature stored in Kelvin).
AsRow(wd) ==
    Observation(wd.temperature + 27315, wd.precipitation, wd.wind,
                wd.relative_humidity, 0)

InitClassify ==
    /\ weather_data \in WeatherInputs
    /\ call = Idle
    /\ csv = << >>
    /\ csv_readable = TRUE
    /\ weather_service = TRUE
    /\ ml_model = "loaded"
    /\ row = Observation(0, 0, 0, 0, 0)
    /\ event = "picnic"
    /\ impl = "none"
    /\ score = 0
    /\ moved = "none"
    /\ moves = 0
    /\ QueriesAtRest
    /\ ChatAtRest

\* A caller runs WeatherPlannerService._fallback_categorization on the row.
FallbackCategorization ==
    /\ call = Idle
    /\ call' = [ op |-> "_fallback_categorization", args |-> AsRow(weather_data),
                 ret |-> fallback_categorization(AsRow(weather_data)) ]
    /\ UNCHANGED <<csv, csv_readable, weather_service, ml_model>>
    /\ UNCHANGED scoreVars
    /\ UNCHANGED classVars
    /\ UNCHANGED concVars
    /\ UNCHANGED chatVars

\* A caller runs WeatherModel.predict_weather_optimized on the measurements.
PredictWeatherOptimized ==
    /\ call = Idle
    /\ call' = [ op |-> "predict_weather_optimized", args |-> weather_data,
                 ret |-> predict_weather_optimized(ml_model,
                            weather_data.temperature, weather_data.precipitation,
                            weather_data.wind, weather_data.relative_humidity,
                            weather_data.altitude, weather_data.air_pressure) ]
    /\ UNCHANGED <<csv, csv_readable, weather_service, ml_model>>
    /\ UNCHANGED scoreVars
    /\ UNCHANGED classVars
    /\ UNCHANGED concVars
    /\ UNCHANGED chatVars

\* POST /categorize-weather with the measurements as its body.
CategorizeWeather ==
    /\ call = Idle
    /\ call' = [ op |-> "categorize_weather", args |-> weather_data,
                 ret |-> categorize_weather(weather_data) ]
    /\ UNCHANGED <<csv, csv_readable, weather_service, ml_model>>
    /\ UNCHANGED scoreVars
    /\ UNCHANGED classVars
    /\ UNCHANGED concVars
    /\ UNCHANGED chatVars

NextClassify ==
    \/ FallbackCategorization
    \/ PredictWeatherOptimized
    \/ CategorizeWeather
    \/ Return

SpecClassify == InitClassify /\ [][NextClassify]_vars

-----------------------------------------------------------------------------
(* Concurrent queries: WeatherPlannerService.find_best_days statement by   *)
(* statement, one thread per request, the registries, the file and         *)
(* self.ml_model shared between the threads                                *)

QueryRaised(q, exception) == [q EXCEPT !.pc = "done", !.frame = << >>, !.ret = exception]

QueryReturned(q, frame) == [q EXCEPT !.pc = "done", !.frame = << >>, !.ret = frame]

\* if city not in CITY_COORDINATES: raise ValueError(...)
fbd_check_city(q, cities) ==
    IF q.args.city \notin DOMAIN cities
    THEN QueryRaised(q, ValueError(
             "City '{city}' not available. Available cities: {available_cities}",
             q.args.city, CITY_NAMES))
    ELSE [q EXCEPT !.pc = "check_event"]

\* if event not in EVENT_CRITERIA: raise ValueError(...)
fbd_check_event(q, events) ==
    IF q.args.event \notin DOMAIN events
    THEN QueryRaised(q, ValueError(
             "Event '{event}' not available. Available events: {available_events}",
             q.args.event, EVENT_NAMES))
    ELSE [q EXCEPT !.pc = "read_csv"]

\* df = pd.read_csv(self.csv_file_path)
fbd_read_csv(q, file, readable) ==
    IF ~readable THEN QueryRaised(q, FileNotFoundError)
    ELSE [q EXCEPT !.pc = "filter", !.frame = read_csv(file)]

\* Mutant: the month filter without its year condition.
fbd_filter_any_year(q, cities) ==
    LET city_lat == cities[q.args.city][1]
        city_lon == cities[q.args.city][2]
        city_data == SelectSeq(q.frame,
                         LAMBDA r : r.lat = city_lat /\ r.lon = city_lon)
        month_data == SelectSeq(city_data,
                          LAMBDA r : r.date.month = q.args.month)
    IN  IF month_data = << >> THEN QueryReturned(q, DataFrame(<< >>))
        ELSE [q EXCEPT !.pc = "score", !.frame = month_data]

\* city_data = df[...].copy(); month_data = city_data[...].copy();
\* if month_data.empty: return pd.DataFrame()
fbd_filter(q, cities) ==
    LET city_lat == cities[q.args.city][1]
        city_lon == cities[q.args.city][2]
        city_data == SelectSeq(q.frame,
                         LAMBDA r : r.lat = city_lat /\ r.lon = city_lon)
        month_data == SelectSeq(city_data,
                          LAMBDA r : /\ r.date.month = q.args.month
                                     /\ r.date.year = q.args.year)
    IN  IF month_data = << >> THEN QueryReturned(q, DataFrame(<< >>))
        ELSE [q EXCEPT !.pc = "score", !.frame = month_data]

\* criteria = EVENT_CRITERIA[event]; month_data['score'] = month_data.apply(...)
\* (month_data is the thread's own copy).
fbd_score(q, events) ==
    LET criteria == events[q.args.event]
    IN  [q EXCEPT !.pc = "rank",
                  !.frame = [ i \in 1..Len(q.frame) |->
                                q.frame[i] @@
                                [score |-> calculate_event_score(q.frame[i], criteria)] ] ]

\* best_days = month_data.nlargest(limit, 'score')[...].copy(), the two added
\* columns, return best_days: the states the thread may end in.
fbd_rank(q, ml) ==
    { QueryReturned(q, DataFrame([ i \in 1..Len(best) |-> best_day(ml, best[i]) ])) :
        best \in nlargest(q.args.limit, q.frame) }

\* Datasets the concurrent queries run against: empty; rows of two cities with
\* a tie and a repeated date; a month holding the row of negative precipitation.
ConcurrentDatasets ==
    { << >>,
      << DatasetRow("Craiova", 2026, 5, 2, 29315, 400, 350, 6800, 5000),
         DatasetRow("Cluj", 2026, 5, 1, 27315, 200, 300, 7000, 6000),
         DatasetRow("Craiova", 2026, 5, 1, 29515, 0, 200, 6000, 2000),
         DatasetRow("Craiova", 2026, 5, 2, 28315, 0, 612, 9005, 7003) >>,
      << DatasetRow("Craiova", 2026, 5, 3, 29415, -500, 250, 6500, 3000),
         DatasetRow("Craiova", 2025, 5, 1, 29515, 0, 200, 6000, 2000),
         DatasetRow("Craiova", 2026, 6, 1, 29815, 0, 100, 5000, 1000) >> }

QueryArgs ==
    { [city |-> "Craiova", event |-> "picnic", month |-> 5, year |-> 2026, limit |-> 2],
      [city |-> "Craiova", event |-> "nunta", month |-> 5, year |-> 2026, limit |-> 5],
      [city |-> "Cluj", event |-> "picnic", month |-> 5, year |-> 2026, limit |-> 1],
      [city |-> "Craiova", event |-> "picnic", month |-> 6, year |-> 2026, limit |-> 3],
      [city |-> "Cluj", event |-> "nunta", month |-> 6, year |-> 2026, limit |-> 1],
      [city |-> "Atlantis", event |-> "picnic", month |-> 5, year |-> 2026, limit |-> 1],
      [city |-> "Craiova", event |-> "karaoke", month |-> 5, year |-> 2026, limit |-> 1] }

InitConcurrent ==
    /\ csv \in ConcurrentDatasets
    /\ csv_readable \in (IF csv = << >> THEN BOOLEAN ELSE {TRUE})
    /\ weather_service = TRUE
    /\ ml_model \in {"none", "loaded"}
    /\ call = Idle
    /\ city_registry = CITY_COORDINATES
    /\ event_registry = EVENT_CRITERIA
    /\ queries = [ t \in Threads |-> IdleQuery ]
    /\ row = Observation(0, 0, 0, 0, 0)
    /\ event = "picnic"
    /\ impl = "none"
    /\ score = 0
    /\ moved = "none"
    /\ moves = 0
    /\ ClassifyAtRest
    /\ ChatAtRest

\* What a step of thread t leaves alone: everything but the thread's own
\* position and local variables.
QueryStep(t, q) ==
    /\ queries' = [queries EXCEPT ![t] = q]
    /\ UNCHANGED <<city_registry, event_registry>>
    /\ UNCHANGED planVars
    /\ UNCHANGED scoreVars
    /\ UNCHANGED classVars
    /\ UNCHANGED chatVars

\* Thread t enters find_best_days(city, event, month, year, limit).
StartQuery(t, a) ==
    /\ queries[t].pc = "idle"
    /\ QueryStep(t, [IdleQuery EXCEPT !.pc = "check_city", !.args = a])

CheckCity(t) ==
    /\ queries[t].pc = "check_city"
    /\ QueryStep(t, fbd_check_city(queries[t], city_registry))

CheckEvent(t) ==
    /\ queries[t].pc = "check_event"
    /\ QueryStep(t, fbd_check_event(queries[t], event_registry))

ReadCsv(t) ==
    /\ queries[t].pc = "read_csv"
    /\ QueryStep(t, fbd_read_csv(queries[t], csv, csv_readable))

FilterRows(t) ==
    /\ queries[t].pc = "filter"
    /\ QueryStep(t, fbd_filter(queries[t], city_registry))

ScoreRows(t) ==
    /\ queries[t].pc = "score"
    /\ QueryStep(t, fbd_score(queries[t], event_registry))

RankRows(t) ==
    /\ queries[t].pc = "rank"
    /\ \E q \in fbd_rank(queries[t], ml_model) : QueryStep(t, q)

\* The caller of thread t has its answer.
FinishQuery(t) ==
    /\ queries[t].pc = "done"
    /\ QueryStep(t, IdleQuery)

NextConcurrent ==
    \/ \E t \in Threads, a \in QueryArgs : StartQuery(t, a)
    \/ \E t \in Threads : CheckCity(t)
    \/ \E t \in Threads : CheckEvent(t)
    \/ \E t \in Threads : ReadCsv(t)
    \/ \E t \in Threads : FilterRows(t)
    \/ \E t \in Threads : ScoreRows(t)
    \/ \E t \in Threads : RankRows(t)
    \/ \E t \in Threads : FinishQuery(t)

SpecConcurrent == InitConcurrent /\ [][NextConcurrent]_vars

-----------------------------------------------------------------------------
(* chatbot_api.py: the chat store                                          *)
(* A dict is a function on its keys.  Timestamps (created_at, updated_at)  *)
(* are left out: only list_saved_chats, which changes nothing, reads them. *)

\* d[k] = v
Put(d, k, v) == [ x \in (DOMAIN d) \cup {k} |-> IF x = k THEN v ELSE d[x] ]

\* del d[k]
Del(d, k) == [ x \in (DOMAIN d) \ {k} |-> d[x] ]

Message(role, content) == [ role |-> role, content |-> content ]

\* jsonify(...), status; the body is a record, {'error': ...} or
\* {'message': ...} where the handler sends one of those.
Json(status_code, body) == [ status_code |-> status_code, body |-> body ]

\* conversation_history[session_id].append(msg): KeyError when the session
\* is not (or no longer) a key.
append_message(history, session_id, msg) ==
    IF session_id \notin DOMAIN history
    THEN [ raised |-> TRUE, conversation_history |-> history ]
    ELSE [ raised |-> FALSE,
           conversation_history |->
               Put(history, session_id, Append(history[session_id], msg)) ]

\* Mutant: clearing a session also empties the chats saved from it.
clear_chat_cascade(history, saved, session_id) ==
    [ conversation_history |->
          IF session_id \in DOMAIN history THEN Del(history, session_id) ELSE history,
      saved_chats |->
          [ id \in DOMAIN saved |->
              IF saved[id].session_id = session_id
              THEN [saved[id] EXCEPT !.messages = << >>] ELSE saved[id] ],
      ret |-> Json(200, [message |-> "Chat cleared successfully"]) ]

\* POST /api/chat/clear
clear_chat(history, saved, session_id) ==
    [ conversation_history |->
          IF session_id \in DOMAIN history THEN Del(history, session_id) ELSE history,
      saved_chats |-> saved,
      ret |-> Json(200, [message |-> "Chat cleared successfully"]) ]

\* POST /api/chat/save; uuid is the value uuid.uuid4() gives when it is reached.
save_chat(history, saved, session_id, chat_title, uuid) ==
    IF session_id \notin DOMAIN history
    THEN [ saved_chats |-> saved, drawn |-> 0,
           ret |-> Json(404, [error |-> "No conversation found for this session"]) ]
    ELSE LET saved_chat == [ id |-> uuid, title |-> chat_title,
                             session_id |-> session_id,
                             messages |-> history[session_id] ]
         IN  [ saved_chats |-> Put(saved, saved_chat.id, saved_chat), drawn |-> 1,
               ret |-> Json(200, [ chat_id |-> saved_chat.id,
                                   title |-> saved_chat.title ]) ]

\* GET /api/chat/load/<chat_id>
load_chat(history, saved, chat_id) ==
    IF chat_id \notin DOMAIN saved
    THEN [ conversation_history |-> history, ret |-> Json(404, [error |-> "Chat not found"]) ]
    ELSE LET saved_chat == saved[chat_id]
         IN  [ conversation_history |->
                   Put(history, saved_chat.session_id, saved_chat.messages),
               ret |-> Json(200, [ chat_id |-> saved_chat.id,
                                   title |-> saved_chat.title,
                                   session_id |-> saved_chat.session_id,
                                   messages |-> saved_chat.messages ]) ]

\* DELETE /api/chat/delete/<chat_id>
delete_chat(saved, chat_id) ==
    IF chat_id \notin DOMAIN saved
    THEN [ saved_chats |-> saved, ret |-> Json(404, [error |-> "Chat not found"]) ]
    ELSE [ saved_chats |-> Del(saved, chat_id),
           ret |-> Json(200, [message |-> "Chat deleted successfully"]) ]

\* PUT /api/chat/update/<chat_id>; an empty new title changes nothing.
update_chat(saved, chat_id, new_title) ==
    IF chat_id \notin DOMAIN saved
    THEN [ saved_chats |-> saved, ret |-> Json(404, [error |-> "Chat not found"]) ]
    ELSE LET updated == IF new_title # ""
                        THEN [saved EXCEPT ![chat_id].title = new_title]
                        ELSE saved
         IN  [ saved_chats |-> updated,
               ret |-> Json(200, [ chat_id |-> chat_id,
                                   title |-> updated[chat_id].title ]) ]

\* Saved chats ever created.
MaxChats == 1

\* A request is taken while the session's history, with two more messages for
\* every request already in the handler, is no longer than this.
MaxHistory == 2

Sessions == {"default"}

\* The worker threads that serve /api/chat while chats are saved and loaded.
ChatWorkers == {"c1"}
UserMessages == {"", "hello"}
Titles == {"", "renamed"}

InitChat ==
    /\ conversation_history = << >>
    /\ saved_chats = << >>
    /\ uuids = 0
    /\ chats = [ c \in ChatThreads |-> IdleChat ]
    /\ call = Idle
    /\ csv = << >>
    /\ csv_readable = TRUE
    /\ weather_service = TRUE
    /\ ml_model = "none"
    /\ row = Observation(0, 0, 0, 0, 0)
    /\ event = "picnic"
    /\ impl = "none"
    /\ score = 0
    /\ moved = "none"
    /\ moves = 0
    /\ ClassifyAtRest
    /\ QueriesAtRest

\* What every step of the chat service leaves alone.
ChatFrame ==
    /\ UNCHANGED <<csv, csv_readable, weather_service, ml_model>>
    /\ UNCHANGED scoreVars
    /\ UNCHANGED classVars
    /\ UNCHANGED concVars

\* A handler has answered: its name, its arguments, its response.
Did(op, args, ret) == call' = [ op |-> op, args |-> args, ret |-> ret ]

\* Worker c answers and leaves the /api/chat handler.
ChatAnswers(c, ret) ==
    /\ chats' = [chats EXCEPT ![c] = IdleChat]
    /\ Did("chat", [session_id |-> chats[c].session_id,
                    message |-> chats[c].message], ret)

\* Worker c moves on inside the /api/chat handler; nothing is answered yet.
ChatGoes(c, pc) ==
    /\ chats' = [chats EXCEPT ![c].pc = pc]
    /\ UNCHANGED call

\* POST /api/chat reaches worker c: an empty message is answered 400.
ChatReceive(c, session_id, user_message) ==
    /\ chats[c].pc = "idle"
    /\ LET stored == IF session_id \in DOMAIN conversation_history
                     THEN Len(conversation_history[session_id]) ELSE 0
           running == { d \in ChatThreads : chats[d].pc # "idle" }
       IN  stored + 2 * Cardinality(running) <= MaxHistory
    /\ IF user_message = ""
       THEN /\ chats' = chats
            /\ Did("chat", [session_id |-> session_id, message |-> user_message],
                   Json(400, [error |-> "Message is required"]))
       ELSE /\ chats' = [chats EXCEPT ![c] = [ pc |-> "check",
                             session_id |-> session_id,
                             message |-> user_message, reply |-> "" ]]
            /\ UNCHANGED call
    /\ UNCHANGED <<conversation_history, saved_chats, uuids>>
    /\ ChatFrame

\* if session_id not in conversation_history:
ChatCheck(c) ==
    /\ chats[c].pc = "check"
    /\ ChatGoes(c, IF chats[c].session_id \notin DOMAIN conversation_history
                   THEN "init" ELSE "append_user")
    /\ UNCHANGED <<conversation_history, saved_chats, uuids>>
    /\ ChatFrame

\* conversation_history[session_id] = []
ChatInit(c) ==
    /\ chats[c].pc = "init"
    /\ conversation_history' = Put(conversation_history, chats[c].session_id, << >>)
    /\ ChatGoes(c, "append_system")
    /\ UNCHANGED <<saved_chats, uuids>>
    /\ ChatFrame

\* One of the handler's three append statements; a KeyError is caught by the
\* handler's except clause and answered 500.
ChatAppend(c, pc, msg, next) ==
    /\ chats[c].pc = pc
    /\ LET r == append_message(conversation_history, chats[c].session_id, msg)
       IN  /\ conversation_history' = r.conversation_history
           /\ IF r.raised THEN ChatAnswers(c, Json(500, [error |-> "KeyError"]))
              ELSE IF next = "idle"
              THEN ChatAnswers(c, Json(200, [ response |-> msg.content,
                                              session_id |-> chats[c].session_id ]))
              ELSE ChatGoes(c, next)
    /\ UNCHANGED <<saved_chats, uuids>>
    /\ ChatFrame

\* conversation_history[session_id].append({"role": "system", ...})
ChatAppendSystem(c) ==
    ChatAppend(c, "append_system", Message("system", "system_prompt"), "append_user")

\* conversation_history[session_id].append({"role": "user", ...})
ChatAppendUser(c) ==
    ChatAppend(c, "append_user", Message("user", chats[c].message), "completion")

\* openai.ChatCompletion.create(messages=conversation_history[session_id]):
\* a reply, or an exception (the upstream's, or KeyError for the lookup).
ChatCompletion(c) ==
    /\ chats[c].pc = "completion"
    /\ \/ /\ chats[c].session_id \in DOMAIN conversation_history
          /\ chats' = [chats EXCEPT ![c].pc = "append_reply",
                                    ![c].reply = "assistant_reply"]
          /\ UNCHANGED call
       \/ ChatAnswers(c, Json(500, [error |-> "upstream error"]))
    /\ UNCHANGED <<conversation_history, saved_chats, uuids>>
    /\ ChatFrame

\* conversation_history[session_id].append({"role": "assistant", ...}); return
ChatAppendReply(c) ==
    ChatAppend(c, "append_reply", Message("assistant", chats[c].reply), "idle")

ClearChat(session_id) ==
    /\ LET r == clear_chat(conversation_history, saved_chats, session_id)
       IN  /\ conversation_history' = r.conversation_history
           /\ saved_chats' = r.saved_chats
           /\ Did("clear_chat", [session_id |-> session_id], r.ret)
    /\ UNCHANGED <<uuids, chats>>
    /\ ChatFrame

SaveChat(session_id, chat_title) ==
    /\ uuids < MaxChats
    /\ LET r == save_chat(conversation_history, saved_chats, session_id,
                          chat_title, uuids + 1)
       IN  /\ saved_chats' = r.saved_chats
           /\ uuids' = uuids + r.drawn
           /\ Did("save_chat", [session_id |-> session_id, title |-> chat_title], r.ret)
    /\ UNCHANGED <<conversation_history, chats>>
    /\ ChatFrame

LoadChat(chat_id) ==
    /\ LET r == load_chat(conversation_history, saved_chats, chat_id)
       IN  /\ conversation_history' = r.conversation_history
           /\ Did("load_chat", [chat_id |-> chat_id], r.ret)
    /\ UNCHANGED <<saved_chats, uuids, chats>>
    /\ ChatFrame

DeleteChat(chat_id) ==
    /\ LET r == delete_chat(saved_chats, chat_id)
       IN  /\ saved_chats' = r.saved_chats
           /\ Did("delete_chat", [chat_id |-> chat_id], r.ret)
    /\ UNCHANGED <<conversation_history, uuids, chats>>
    /\ ChatFrame

UpdateChat(chat_id, new_title) ==
    /\ LET r == update_chat(saved_chats, chat_id, new_title)
       IN  /\ saved_chats' = r.saved_chats
           /\ Did("update_chat", [chat_id |-> chat_id, title |-> new_title], r.ret)
    /\ UNCHANGED <<conversation_history, uuids, chats>>
    /\ ChatFrame

NextChat ==
    \/ \E c \in ChatWorkers, s \in Sessions, msg \in UserMessages : ChatReceive(c, s, msg)
    \/ \E c \in ChatWorkers : ChatCheck(c)
    \/ \E c \in ChatWorkers : ChatInit(c)
    \/ \E c \in ChatWorkers : ChatAppendSystem(c)
    \/ \E c \in ChatWorkers : ChatAppendUser(c)
    \/ \E c \in ChatWorkers : ChatCompletion(c)
    \/ \E c \in ChatWorkers : ChatAppendReply(c)
    \/ \E s \in Sessions : ClearChat(s)
    \/ \E s \in Sessions : SaveChat(s, "trip")
    \/ \E id \in 1..MaxChats : LoadChat(id)
    \/ \E id \in 1..MaxChats : DeleteChat(id)
    \/ \E id \in 1..MaxChats, title \in Titles : UpdateChat(id, title)

SpecChat == InitChat /\ [][NextChat]_vars

\* What the clients of two simultaneous requests send.
ConcurrentMessages == {"", "hello", "thanks"}

\* /api/chat alone, served by two worker threads at a time: each statement
\* of the handler that reads or writes conversation_history is one step, and
\* the steps of the two requests interleave freely.
NextChatRequests ==
    \/ \E c \in ChatThreads, s \in Sessions, msg \in ConcurrentMessages :
           ChatReceive(c, s, msg)
    \/ \E c \in ChatThreads : ChatCheck(c)
    \/ \E c \in ChatThreads : ChatInit(c)
    \/ \E c \in ChatThreads : ChatAppendSystem(c)
    \/ \E c \in ChatThreads : ChatAppendUser(c)
    \/ \E c \in ChatThreads : ChatCompletion(c)
    \/ \E c \in ChatThreads : ChatAppendReply(c)

SpecChatRequests == InitChat /\ [][NextChatRequests]_vars

-----------------------------------------------------------------------------
(* Claims about the scoring function (checked under SpecScore)             *)

Scored == impl # "none"

\* C1: for every observation and every registered event profile the returned
\* score lies in the closed range [0, 100].
C1_ScoreInRange == Scored => (0 <= score /\ score <= 10000)

\* A scored observation with a factor so far outside its band that the
\* unfloored penalty exceeds the whole 100 points.
C1_Witness ==
    /\ Scored
    /\ moved = "temperature"
    /\ temp_points(row, EVENT_CRITERIA[event]) = 0
    /\ Abs(row.afternoon_temp - 27315 - EVENT_CRITERIA[event].temp_min) * 20 > 100000
    /\ score > 0

\* The day lies in the profile's band on all five measurements, equality with
\* a threshold included (Celsius = Kelvin - 273.15).
AllWithin(r, criteria) ==
    /\ criteria.temp_min <= r.afternoon_temp - 27315
    /\ r.afternoon_temp - 27315 <= criteria.temp_max
    /\ r.precip <= criteria.max_precip
    /\ r.wind_max_speed <= criteria.max_wind
    /\ r.humidity_afternoon <= criteria.max_humidity
    /\ r.cloud_cover_afternoon <= criteria.max_clouds

\* C2: a day whose temperature lies in [min, max] and whose precipitation,
\* wind, humidity and cloud cover are each at or below the profile's maximum
\* scores exactly 100.00.
C2_WithinScoresHundred ==
    (Scored /\ AllWithin(row, EVENT_CRITERIA[event])) => score = 10000

\* A scored day that sits exactly on the upper edge of every threshold.
C2_Witness ==
    /\ Scored
    /\ row.afternoon_temp - 27315 = EVENT_CRITERIA[event].temp_max
    /\ row.precip = EVENT_CRITERIA[event].max_precip
    /\ row.wind_max_speed = EVENT_CRITERIA[event].max_wind
    /\ row.humidity_afternoon = EVENT_CRITERIA[event].max_humidity
    /\ row.cloud_cover_afternoon = EVENT_CRITERIA[event].max_clouds
    /\ score = 10000

\* The points the scoring function gives for one factor.
FactorPoints(f, r, criteria) ==
    CASE f = "temperature" -> temp_points(r, criteria)
      [] f = "precip"      -> precip_points(r, criteria)
      [] f = "wind"        -> wind_points(r, criteria)
      [] f = "humidity"    -> humidity_points(r, criteria)
      [] f = "clouds"      -> clouds_points(r, criteria)

\* C3: with the other four measurements fixed, moving one factor further
\* outside its band never raises the score, and that factor's contribution
\* stays at or above 0.
C3_MonotoneOutward ==
    [][ moves' = moves + 1 =>
          /\ score' <= score
          /\ FactorPoints(moved', row', EVENT_CRITERIA[event]') >= 0 ]_vars

\* A factor was moved outward and the score fell strictly, with the moved
\* factor's contribution clamped at 0.
C3_Witness ==
    /\ moves > 0
    /\ moved = "wind"
    /\ wind_points(row, EVENT_CRITERIA[event]) = 0
    /\ score <= 8000

\* The spec's table: each component from its own measurement and thresholds.
TableTemperature(temp_c, lo, hi) ==
    IF lo <= temp_c /\ temp_c <= hi
    THEN 30000
    ELSE Max(0, 30000 - 20 * Min(Abs(temp_c - lo), Abs(temp_c - hi)))

TableUpper(value, threshold, full, rate) ==
    IF value <= threshold THEN full ELSE Max(0, full - rate * (value - threshold))

TableSum(r, criteria) ==
      TableTemperature(r.afternoon_temp - 27315, criteria.temp_min, criteria.temp_max)
    + TableUpper(r.precip, criteria.max_precip, 25000, 10)
    + TableUpper(r.wind_max_speed, criteria.max_wind, 20000, 30)
    + TableUpper(r.humidity_afternoon, criteria.max_humidity, 15000, 3)
    + TableUpper(r.cloud_cover_afternoon, criteria.max_clouds, 10000, 2)

\* C4 as stated: the score equals the sum of the five table components.
C4_EqualsSum == Scored => score * 10 = TableSum(row, EVENT_CRITERIA[event])

\* C4 (amended): the score equals the sum of the five table components
\* rounded to two decimal places, each component depending only on its own
\* measurement and threshold.
C4_EqualsRoundedSum ==
    Scored => score = RoundHalfEven(TableSum(row, EVENT_CRITERIA[event]), 10)

\* A scored observation whose component sum has a third decimal, with
\* components both in range and penalised.
C4_Witness ==
    /\ Scored
    /\ TableSum(row, EVENT_CRITERIA[event]) % 10 # 0
    /\ row.precip > EVENT_CRITERIA[event].max_precip
    /\ row.wind_max_speed <= EVENT_CRITERIA[event].max_wind

-----------------------------------------------------------------------------
(* Claims about find_best_days and /plan-event (checked under Spec)        *)

\* The file positions (1-based) of the rows at the city's coordinates in the
\* requested month and year.
Matching(file, city, month, year) ==
    { i \in 1..Len(file) :
        /\ file[i].lat = CITY_COORDINATES[city][1]
        /\ file[i].lon = CITY_COORDINATES[city][2]
        /\ file[i].date.month = month
        /\ file[i].date.year = year }

Registered(a) ==
    a.city \in DOMAIN CITY_COORDINATES /\ a.event \in DOMAIN EVENT_CRITERIA

\* WeatherPlannerService.find_best_days returned a frame.
Ranked == call.op = "find_best_days" /\ call.ret.type = "DataFrame"

\* Either module's find_best_days was called.
EngineCalled == call.op \in {"find_best_days", "smart_planner.find_best_days"}

\* C5: find_best_days with limit=L returns at most L rows, ordered by score
\* descending, rows of equal score in the same relative order as in the dataset.
C5_AtMostLDescendingStable ==
    Ranked =>
        LET rows == call.ret.rows
        IN  /\ Len(rows) <= call.args.limit
            /\ \A i \in 1..(Len(rows) - 1) : rows[i].score >= rows[i + 1].score
            /\ \A i, j \in 1..Len(rows) :
                 (i < j /\ rows[i].score = rows[j].score) =>
                     rows[i].index < rows[j].index

\* C6: for a query matching n rows find_best_days returns exactly
\* min(limit, n) of them, none left out scores strictly higher than a
\* returned row, and among rows tying at the cut-off the earliest in dataset
\* order are the ones returned.
C6_ExactlyTopRows ==
    Ranked =>
        LET a == call.args
            rows == call.ret.rows
            M == Matching(csv, a.city, a.month, a.year)
            returned == { rows[k].index + 1 : k \in 1..Len(rows) }
        IN  /\ Len(rows) = Min(a.limit, Cardinality(M))
            /\ Cardinality(returned) = Len(rows)
            /\ returned \subseteq M
            /\ \A i \in M \ returned : \A k \in 1..Len(rows) :
                 /\ calculate_event_score(csv[i], EVENT_CRITERIA[a.event])
                       <= rows[k].score
                 /\ calculate_event_score(csv[i], EVENT_CRITERIA[a.event])
                       = rows[k].score => rows[k].index + 1 < i

\* A ranking that left out a row tying with the last row it returned.
C6_Witness ==
    /\ Ranked
    /\ Len(call.ret.rows) >= 1
    /\ \E i \in Matching(csv, call.args.city, call.args.month, call.args.year) :
         /\ \A k \in 1..Len(call.ret.rows) : call.ret.rows[k].index + 1 # i
         /\ calculate_event_score(csv[i], EVENT_CRITERIA[call.args.event])
              = call.ret.rows[Len(call.ret.rows)].score

\* C7: for a registered city and event whose coordinates, month and year match
\* zero rows of the dataset, find_best_days (either module's) returns an empty
\* result and raises nothing.
C7_NoRowsEmptyResult ==
    ( /\ EngineCalled
      /\ csv_readable
      /\ Registered(call.args)
      /\ Matching(csv, call.args.city, call.args.month, call.args.year) = {} )
    => call.ret = DataFrame(<< >>)

\* A query for a registered city and event on a dataset that holds rows of the
\* city, none of them in the requested month.
C7_Witness ==
    /\ call.op = "find_best_days"
    /\ Registered(call.args)
    /\ Matching(csv, call.args.city, call.args.month, call.args.year) = {}
    /\ \E i \in 1..Len(csv) : csv[i].lat = CITY_COORDINATES[call.args.city][1]
    /\ call.ret = DataFrame(<< >>)

\* C8: find_best_days called with a city that is not a key of the city
\* registry fails with an error about the city whose message lists all
\* registered cities, and returns no ranking.
C8_UnknownCityListsCities ==
    (EngineCalled /\ call.args.city \notin DOMAIN CITY_COORDINATES) =>
        /\ call.ret.type = "ValueError"
        /\ call.ret.message.name = call.args.city
        /\ call.ret.message.listed = CITY_NAMES

\* C9: find_best_days called with a registered city and an event that is not
\* a key of the event registry fails with an error about the event whose
\* message lists all valid events, and returns no ranking.
C9_UnknownEventListsEvents ==
    ( /\ EngineCalled
      /\ call.args.city \in DOMAIN CITY_COORDINATES
      /\ call.args.event \notin DOMAIN EVENT_CRITERIA ) =>
        /\ call.ret.type = "ValueError"
        /\ call.ret.message.name = call.args.event
        /\ call.ret.message.listed = EVENT_NAMES

\* The /plan-event request as the handler sees it.
Posted == WeatherPlanningRequest(call.args)

EmptySuccess(ret) ==
    ret.status_code = 200 /\ ret.success /\ ret.best_days = << >>

-----------------------------------------------------------------------------
(* Claims about the classifiers (checked under SpecClassify)               *)

\* The rules as the specification lists them: label and condition, in order.
CategoryRules(temp, precip) ==
    << [label |-> "snow",       matches |-> temp <= 0 /\ precip > 1],
       [label |-> "heavy_rain", matches |-> precip >= 30],
       [label |-> "light_rain", matches |-> 5 <= precip /\ precip < 30],
       [label |-> "hot",        matches |-> temp >= 2000],
       [label |-> "cold",       matches |-> temp < 1000 /\ precip < 5],
       [label |-> "sunny",      matches |-> 1000 <= temp /\ temp < 2000 /\ precip < 5] >>

\* The label of the first rule that matches; "sunny" when none does.
FirstMatchingRule(temp, precip) ==
    LET rules == CategoryRules(temp, precip)
        hits == { i \in 1..Len(rules) : rules[i].matches }
    IN  IF hits = {} THEN "sunny"
        ELSE rules[CHOOSE i \in hits : \A j \in hits : i <= j].label

\* C11: each rule-based categorizer (_fallback_categorization and the
\* /categorize-weather chain) returns the label of the first matching rule in
\* the order snow, heavy_rain, light_rain, hot, cold, sunny, default sunny; at
\* 0 deg C precipitation 0.002 gives snow and precipitation 0 gives cold.
C11_FirstMatchingRule ==
    /\ call.op = "_fallback_categorization" =>
         /\ call.ret = FirstMatchingRule(call.args.afternoon_temp - 27315,
                                         call.args.precip)
         /\ (call.args.afternoon_temp = 27315 /\ call.args.precip = 2)
               => call.ret = "snow"
         /\ (call.args.afternoon_temp = 27315 /\ call.args.precip = 0)
               => call.ret = "cold"
    /\ call.op = "categorize_weather" =>
         /\ call.ret.weather_category =
               FirstMatchingRule(call.args.temperature, call.args.precipitation)
         /\ (call.args.temperature = 0 /\ call.args.precipitation = 2)
               => call.ret.weather_category = "snow"
         /\ (call.args.temperature = 0 /\ call.args.precipitation = 0)
               => call.ret.weather_category = "cold"

\* The fallback categorizer ran on a freezing row with heavy precipitation,
\* where the snow rule and the heavy_rain rule both match, and answered snow.
C11_Witness ==
    /\ call.op = "_fallback_categorization"
    /\ call.args.afternoon_temp = 27315
    /\ call.args.precip = 30
    /\ call.ret = "snow"

\* The fields of the measurements that lie outside their physical bounds.
InvalidFields(wd) ==
    { f \in {"relative_humidity", "precipitation", "wind", "air_pressure"} :
        \/ f = "relative_humidity"
              /\ (wd.relative_humidity < 0 \/ wd.relative_humidity > 10000)
        \/ f = "precipitation" /\ wd.precipitation < 0
        \/ f = "wind" /\ wd.wind < 0
        \/ f = "air_pressure" /\ wd.air_pressure < 0 }

\* C13: classify given humidity outside [0,100] or negative precipitation,
\* wind or air pressure fails with an error naming an offending field and
\* produces no label, at predict_weather_optimized and at /categorize-weather.
C13_InvalidMeasurementRejected ==
    /\ ( /\ call.op = "predict_weather_optimized"
         /\ InvalidFields(call.args) # {} ) =>
           /\ call.ret.raised = "ValueError"
           /\ call.ret.field \in InvalidFields(call.args)
    /\ ( /\ call.op = "categorize_weather"
         /\ InvalidFields(call.args) # {} ) =>
           /\ call.ret.status_code = 400
           /\ "weather_category" \notin DOMAIN call.ret

-----------------------------------------------------------------------------
(* Claims about classification and validation inside find_best_days        *)
(* (checked under Spec)                                                    *)

\* The classifier is absent, or its call for this returned row raises.
ClassifierFails(ml, r) ==
    \/ ml = "none"
    \/ predict_weather_optimized(ml, r.temp_celsius, r.precip, r.wind_max_speed,
                                 r.humidity_afternoon, 10000, 101325).raised # "no"

\* C12: during find_best_days a row for which the classifier is absent or
\* fails gets the fallback label, every other row keeps the classifier's
\* answer, and the full ranking is returned without raising.
C12_FallbackPerRow ==
    ( /\ call.op = "find_best_days"
      /\ Registered(call.args)
      /\ csv_readable ) =>
        /\ call.ret.type = "DataFrame"
        /\ Len(call.ret.rows) =
             Min(call.args.limit,
                 Cardinality(Matching(csv, call.args.city, call.args.month,
                                      call.args.year)))
        /\ \A k \in 1..Len(call.ret.rows) :
             LET r == call.ret.rows[k]
             IN  IF ClassifierFails(ml_model, r)
                 THEN /\ r.weather_category.by = "fallback"
                      /\ r.weather_category.label = fallback_categorization(r)
                 ELSE /\ r.weather_category.by = "ml_model"
                      /\ r.weather_category.features[2] = r.temp_celsius
                      /\ r.weather_category.features[3] = r.precip

\* A ranking made with the classifier loaded in which one row was rejected by
\* the classifier and labelled by the fallback while another kept the
\* classifier's answer.
C12_Witness ==
    /\ Ranked
    /\ ml_model = "loaded"
    /\ \E k, j \in 1..Len(call.ret.rows) :
         /\ call.ret.rows[k].precip < 0
         /\ call.ret.rows[k].weather_category.by = "fallback"
         /\ call.ret.rows[k].weather_category.label = "hot"
         /\ call.ret.rows[j].weather_category.by = "ml_model"

\* A measurement outside its physical bounds.
OutOfBounds(r) ==
    \/ r.humidity_afternoon < 0 \/ r.humidity_afternoon > 10000
    \/ r.precip < 0
    \/ r.wind_max_speed < 0

\* C14: an observation with a measurement outside physical bounds is rejected
\* before it is scored: find_best_days never returns a score computed from
\* such a row.
C14_InvalidRowNeverScored ==
    Ranked => \A k \in 1..Len(call.ret.rows) : ~OutOfBounds(call.ret.rows[k])

-----------------------------------------------------------------------------
(* Claims comparing the two engines and about the returned rows            *)
(* (checked under Spec)                                                    *)

\* What a caller sees of an outcome when it looks at dates and scores only.
DatesAndScores(ret) ==
    IF ret.type = "DataFrame"
    THEN [ type |-> ret.type,
           rows |-> [ k \in 1..Len(ret.rows) |->
                        [date |-> ret.rows[k].date, score |-> ret.rows[k].score] ] ]
    ELSE [ type |-> ret.type, rows |-> << >> ]

C17_SameDateRowsIndependent ==
    Ranked =>
        LET a == call.args
            rows == call.ret.rows
            M == Matching(csv, a.city, a.month, a.year)
            Returned(i) ==
                \E k \in 1..Len(rows) :
                    /\ rows[k].index + 1 = i
                    /\ rows[k].date = csv[i].date
                    /\ rows[k].score =
                         calculate_event_score(csv[i], EVENT_CRITERIA[a.event])
        IN  \A i, j \in M :
              (i # j /\ csv[i].date = csv[j].date) =>
                  /\ a.limit >= Cardinality(M) => (Returned(i) /\ Returned(j))
                  /\ ~Returned(i) =>
                       /\ Len(rows) = a.limit
                       /\ \A k \in 1..Len(rows) :
                            rows[k].score >=
                              calculate_event_score(csv[i], EVENT_CRITERIA[a.event])

\* A ranking in which one date appears twice, with two different scores.
C17_Witness ==
    /\ Ranked
    /\ \E k, l \in 1..Len(call.ret.rows) :
         /\ k # l
         /\ call.ret.rows[k].date = call.ret.rows[l].date
         /\ call.ret.rows[k].score # call.ret.rows[l].score

\* C18: every returned row carries the date, precipitation, wind, humidity
\* and cloud cover of one matching dataset row unchanged, that row's score
\* under the requested event's profile, and temp_celsius equal to its Kelvin
\* temperature minus 273.15; no returned row is of another city, month or year.
C18_ReturnedRowsFromDataset ==
    Ranked =>
        LET a == call.args
        IN  \A k \in 1..Len(call.ret.rows) :
              LET r == call.ret.rows[k]
              IN  /\ r.date.month = a.month
                  /\ r.date.year = a.year
                  /\ \E i \in Matching(csv, a.city, a.month, a.year) :
                       /\ r.date = csv[i].date
                       /\ r.precip = csv[i].precip
                       /\ r.wind_max_speed = csv[i].wind_max_speed
                       /\ r.humidity_afternoon = csv[i].humidity_afternoon
                       /\ r.cloud_cover_afternoon = csv[i].cloud_cover_afternoon
                       /\ r.score =
                            calculate_event_score(csv[i], EVENT_CRITERIA[a.event])
                       /\ r.temp_celsius = csv[i].afternoon_temp - 27315

\* A ranking returned from a dataset that also holds a row of another city
\* and a row of another month.
C18_Witness ==
    /\ Ranked
    /\ Len(call.ret.rows) >= 1
    /\ \E i, j \in 1..Len(csv) :
         /\ csv[i].lat # CITY_COORDINATES[call.args.city][1]
         /\ csv[j].lat = CITY_COORDINATES[call.args.city][1]
         /\ csv[j].date.month # call.args.month

\* C19: find_best_days (either module's) checks the city before the event and
\* both before the dataset: an unknown city is the error reported even when
\* the event is unknown too, and an unknown city or event is reported even
\* when the dataset cannot be read or holds no row for the query.
C19_CityThenEventThenDataset ==
    EngineCalled =>
        /\ call.args.city \notin DOMAIN CITY_COORDINATES =>
             /\ call.ret.type = "ValueError"
             /\ call.ret.message.name = call.args.city
        /\ ( /\ call.args.city \in DOMAIN CITY_COORDINATES
             /\ call.args.event \notin DOMAIN EVENT_CRITERIA ) =>
             /\ call.ret.type = "ValueError"
             /\ call.ret.message.name = call.args.event

\* An unknown city asked with an unknown event while the dataset cannot be
\* read, answered with the error about the city.
C19_Witness ==
    /\ EngineCalled
    /\ call.args.city \notin DOMAIN CITY_COORDINATES
    /\ call.args.event \notin DOMAIN EVENT_CRITERIA
    /\ ~csv_readable
    /\ call.ret.type = "ValueError"
    /\ call.ret.message.name = call.args.city

-----------------------------------------------------------------------------
(* Claims about concurrent queries (checked under SpecConcurrent)          *)

\* Every finished query holds an outcome find_best_days gives for its
\* arguments when it runs alone on the dataset.
SameAsAlone ==
    \A t \in Threads :
        queries[t].pc = "done" =>
            queries[t].ret \in
                find_best_days(csv, csv_readable, ml_model, queries[t].args.city,
                               queries[t].args.event, queries[t].args.month,
                               queries[t].args.year, queries[t].args.limit)

\* C15: find_best_days writes no shared state: no step of a query changes the
\* city registry, the event registry, the dataset or the loaded classifier,
\* and under every interleaving of two queries each returns a result it
\* returns when run alone.
C15_QueriesWriteNoSharedState ==
    /\ [](city_registry = CITY_COORDINATES /\ event_registry = EVENT_CRITERIA)
    /\ [][ queries' # queries =>
             UNCHANGED <<city_registry, event_registry, csv, csv_readable, ml_model>> ]_vars
    /\ []SameAsAlone

\* One query has returned its ranking while the other, for a different event,
\* stands between reading the dataset and ranking.
C15_Witness ==
    /\ queries["q1"].pc = "done"
    /\ queries["q1"].ret.type = "DataFrame"
    /\ Len(queries["q1"].ret.rows) >= 2
    /\ queries["q2"].pc = "score"
    /\ queries["q2"].args.event # queries["q1"].args.event

-----------------------------------------------------------------------------
(* Claims about the chat store (checked under SpecChat)                    *)

\* C20: a saved chat is an isolated snapshot.  The messages stored under a
\* chat_id are the session's history at the moment /api/chat/save answered
\* with that chat_id; no later step (of chat, clear, load, update or another
\* save) changes them while the chat exists; and /api/chat/load of the
\* chat_id leaves the saving session's history equal to exactly those messages.
C20_SavedChatIsSnapshot ==
    [][ /\ \A id \in (DOMAIN saved_chats) \cap (DOMAIN saved_chats') :
             saved_chats'[id].messages = saved_chats[id].messages
        /\ \A id \in (DOMAIN saved_chats') \ (DOMAIN saved_chats) :
             /\ call'.op = "save_chat"
             /\ call'.ret.status_code = 200
             /\ call'.ret.body.chat_id = id
             /\ saved_chats'[id].session_id = call'.args.session_id
             /\ call'.args.session_id \in DOMAIN conversation_history
             /\ saved_chats'[id].messages =
                   conversation_history[call'.args.session_id]
        /\ ( /\ call'.op = "load_chat"
             /\ call'.ret.status_code = 200
             /\ chats' = chats ) =>
               /\ call'.args.chat_id \in DOMAIN saved_chats
               /\ conversation_history'[saved_chats[call'.args.chat_id].session_id]
                     = saved_chats[call'.args.chat_id].messages
               /\ call'.ret.body.messages = saved_chats[call'.args.chat_id].messages
      ]_vars

\* A chat saved when the history held the system prompt only, renamed since,
\* has just been loaded while the request that went on to add its user message
\* is still in the handler: the session is back at the saved messages.
C20_Witness ==
    /\ call.op = "load_chat"
    /\ call.ret.status_code = 200
    /\ call.args.chat_id \in DOMAIN saved_chats
    /\ saved_chats[call.args.chat_id].title = "renamed"
    /\ saved_chats[call.args.chat_id].messages
          = << Message("system", "system_prompt") >>
    /\ chats["c1"].pc = "append_reply"
    /\ conversation_history[saved_chats[call.args.chat_id].session_id]
          = saved_chats[call.args.chat_id].messages

-----------------------------------------------------------------------------
(* Claims about /api/chat (checked under SpecChatRequests)                 *)

\* The system prompt first, then user message / assistant reply pairs.
PairedHistory(h) ==
    \/ Len(h) = 0
    \/ /\ h[1].role = "system"
       /\ Len(h) % 2 = 1
       /\ \A i \in 2..Len(h) :
            h[i].role = IF i % 2 = 0 THEN "user" ELSE "assistant"

\* C21: a failed /api/chat request leaves the session's history as it was
\* before the request.  When the last answer was a 500 of /api/chat and no
\* request is in the handler, every stored history is the system prompt
\* followed by user message / assistant reply pairs.
C21_FailedChatLeavesHistory ==
    ( /\ call.op = "chat"
      /\ call.ret.status_code = 500
      /\ \A c \in ChatThreads : chats[c].pc = "idle" )
    => \A s \in DOMAIN conversation_history :
         PairedHistory(conversation_history[s])

\* The request of worker c has executed its append of the user message.
UserMessageAppended(c) == chats[c].pc \in {"completion", "append_reply"}

\* C22: concurrent /api/chat requests on one unseen session.  A stored
\* history holds at most one system message, and only in first place; and
\* while a request is between its append of the user message and its answer,
\* the history of its session starts with the system message and holds the
\* request's user message.
C22_OneSystemPromptNoLostMessage ==
    \A s \in DOMAIN conversation_history :
        LET h == conversation_history[s]
        IN  /\ \A i \in 1..Len(h) : h[i].role = "system" => i = 1
            /\ \A c \in ChatThreads :
                 ( chats[c].session_id = s /\ UserMessageAppended(c) ) =>
                     /\ Len(h) >= 1
                     /\ h[1].role = "system"
                     /\ \E i \in 1..Len(h) :
                          h[i] = Message("user", chats[c].message)

=============================================================================
